---------------------------- MODULE Spec2Model ----------------------------
(***************************************************************************)
(* Model of the Indian Festivals API core: the result cache                *)
(* (app/core/cache.py), the festival orchestrator                          *)
(* (app/services/festival_service.py) and the table extractor / religion   *)
(* classifier (app/core/scraper.py).                                       *)
(*                                                                         *)
(* Python's Optional[T] is modelled as a sequence of length at most one:   *)
(* None is <<>> and a present value v is <<v>>.  A Python str is a         *)
(* sequence of atoms: one-character strings, or whole words that contain   *)
(* no whitespace and none of the separators the code looks for.  An        *)
(* insertion-ordered dict is a sequence of <<key, value>> pairs.           *)
(***************************************************************************)
EXTENDS Integers, Sequences, FiniteSets, TLC

None == <<>>
Some(x) == <<x>>

(***************************************************************************)
(* Bounds of the model.                                                    *)
(***************************************************************************)
\* number of clock advances in one behaviour
MaxTicks == 2
\* number of cache and service calls in one behaviour
MaxCalls == 2
\* number of tables of a document
MaxTables == 2

(***************************************************************************)
(* Text: characters, str.encode(), json.dumps                              *)
(***************************************************************************)
\* the printable ASCII characters, code 32 first (code 96 is spelled out)
AsciiTable ==
    << " ", "!", "\"", "#", "$", "%", "&", "'", "(", ")", "*", "+", ",", "-", ".", "/",
       "0", "1", "2", "3", "4", "5", "6", "7", "8", "9", ":", ";", "<", "=", ">", "?",
       "@", "A", "B", "C", "D", "E", "F", "G", "H", "I", "J", "K", "L", "M", "N", "O",
       "P", "Q", "R", "S", "T", "U", "V", "W", "X", "Y", "Z", "[", "\\", "]", "^", "_",
       "grave", "a", "b", "c", "d", "e", "f", "g", "h", "i", "j", "k", "l", "m", "n", "o",
       "p", "q", "r", "s", "t", "u", "v", "w", "x", "y", "z", "{", "|", "}", "~" >>

Ord(c) == 31 + (CHOOSE i \in 1..Len(AsciiTable) : AsciiTable[i] = c)

\* key_string.encode(): the bytes of an ASCII string
Encode(s) == [i \in 1..Len(s) |-> Ord(s[i])]

Digits == <<"0", "1", "2", "3", "4", "5", "6", "7", "8", "9">>

RECURSIVE NatStr(_)
NatStr(n) == IF n < 10 THEN <<Digits[n + 1]>>
             ELSE NatStr(n \div 10) \o <<Digits[(n % 10) + 1]>>

\* str(int) / the JSON form of an int
IntStr(n) == IF n < 0 THEN <<"-">> \o NatStr(0 - n) ELSE NatStr(n)

\* JSON values passed as keyword arguments: None, an int or a str
JNull == [null |-> TRUE]
JInt(n) == [int |-> n]
JStr(s) == [str |-> s]

\* the JSON form of one value (the strings used need no escapes)
JsonValue(v) ==
    IF "null" \in DOMAIN v THEN <<"n", "u", "l", "l">>
    ELSE IF "int" \in DOMAIN v THEN IntStr(v.int)
    ELSE <<"\"">> \o v.str \o <<"\"">>

\* s < t in Python's string order (code point by code point)
RECURSIVE StrLess(_, _)
StrLess(s, t) ==
    IF t = <<>> THEN FALSE
    ELSE IF s = <<>> THEN TRUE
    ELSE IF Ord(Head(s)) # Ord(Head(t)) THEN Ord(Head(s)) < Ord(Head(t))
    ELSE StrLess(Tail(s), Tail(t))

\* insert one (key, value) item into a list of items sorted by key
RECURSIVE InsertItem(_, _)
InsertItem(item, sorted) ==
    IF sorted = <<>> THEN <<item>>
    ELSE IF StrLess(item[1], Head(sorted)[1]) THEN <<item>> \o sorted
    ELSE <<Head(sorted)>> \o InsertItem(item, Tail(sorted))

\* sort_keys=True: the items of the dict in key order
RECURSIVE SortItems(_)
SortItems(items) ==
    IF items = <<>> THEN <<>>
    ELSE InsertItem(Head(items), SortItems(Tail(items)))

RECURSIVE JoinItems(_)
JoinItems(items) ==
    IF items = <<>> THEN <<>>
    ELSE <<"\"">> \o Head(items)[1] \o <<"\"", ":", " ">> \o JsonValue(Head(items)[2])
         \o (IF Len(items) > 1 THEN <<",", " ">> ELSE <<>>)
         \o JoinItems(Tail(items))

\* json.dumps(kwargs, sort_keys=True); kwargs is the list of (key, value)
\* items in the order the caller wrote them
JsonDumps(kwargs) == <<"{">> \o JoinItems(SortItems(kwargs)) \o <<"}">>

(***************************************************************************)
(* hashlib.md5(...).hexdigest(), on 32-bit words kept as <<high, low>>     *)
(* pairs of 16-bit halves.                                                 *)
(***************************************************************************)
W16 == 65536

WAdd(x, y) ==
    << (x[1] + y[1] + ((x[2] + y[2]) \div W16)) % W16, (x[2] + y[2]) % W16 >>

\* rotate left by r bits, 0 <= r < 16
WRotl16(y, r) ==
    << ((y[1] * (2 ^ r)) % W16) + (y[2] \div (2 ^ (16 - r))),
       ((y[2] * (2 ^ r)) % W16) + (y[1] \div (2 ^ (16 - r))) >>

\* rotate left by s bits, 0 <= s < 32
WRotl(x, s) ==
    IF s >= 16 THEN WRotl16(<<x[2], x[1]>>, s - 16) ELSE WRotl16(x, s)

\* the round function of round q on one bit of b, c, d
Md5Bit(q, b, c, d) ==
    CASE q = 0 -> IF b = 1 THEN c ELSE d
      [] q = 1 -> IF d = 1 THEN b ELSE c
      [] q = 2 -> (b + c + d) % 2
      [] q = 3 -> (c + (IF b = 1 \/ d = 0 THEN 1 ELSE 0)) % 2

\* the round function on the four low bits of b, c, d
Md5Nibble(q, b, c, d) ==
    Md5Bit(q, b % 2, c % 2, d % 2)
    + 2 * Md5Bit(q, (b \div 2) % 2, (c \div 2) % 2, (d \div 2) % 2)
    + 4 * Md5Bit(q, (b \div 4) % 2, (c \div 4) % 2, (d \div 4) % 2)
    + 8 * Md5Bit(q, (b \div 8) % 2, (c \div 8) % 2, (d \div 8) % 2)

\* the round function on 16-bit halves
Md5Half(q, b, c, d) ==
    Md5Nibble(q, b % 16, c % 16, d % 16)
    + 16 * Md5Nibble(q, (b \div 16) % 16, (c \div 16) % 16, (d \div 16) % 16)
    + 256 * Md5Nibble(q, (b \div 256) % 16, (c \div 256) % 16, (d \div 256) % 16)
    + 4096 * Md5Nibble(q, b \div 4096, c \div 4096, d \div 4096)

Md5F(q, b, c, d) ==
    << Md5Half(q, b[1], c[1], d[1]), Md5Half(q, b[2], c[2], d[2]) >>

Md5K ==
    << <<55146, 42104>>, <<59591, 46934>>, <<9248, 28891>>, <<49597, 52974>>,
       <<62844, 4015>>, <<18311, 50730>>, <<43056, 17939>>, <<64838, 38145>>,
       <<27008, 39128>>, <<35652, 63407>>, <<65535, 23473>>, <<35164, 55230>>,
       <<27536, 4386>>, <<64920, 29075>>, <<42617, 17294>>, <<18868, 2081>>,
       <<63006, 9570>>, <<49216, 45888>>, <<9822, 23121>>, <<59830, 51114>>,
       <<54831, 4189>>, <<580, 5203>>, <<55457, 59009>>, <<59347, 64456>>,
       <<8673, 52710>>, <<49975, 2006>>, <<62677, 3463>>, <<17754, 5357>>,
       <<43491, 59653>>, <<64751, 41976>>, <<26479, 729>>, <<36138, 19594>>,
       <<65530, 14658>>, <<34673, 63105>>, <<28061, 24866>>, <<64997, 14348>>,
       <<42174, 59972>>, <<19422, 53161>>, <<63163, 19296>>, <<48831, 48240>>,
       <<10395, 32454>>, <<60065, 10234>>, <<54511, 12421>>, <<1160, 7429>>,
       <<55764, 53305>>, <<59099, 39397>>, <<8098, 31992>>, <<50348, 22117>>,
       <<62505, 8772>>, <<17194, 65431>>, <<43924, 9127>>, <<64659, 41017>>,
       <<25947, 22979>>, <<36620, 52370>>, <<65519, 62589>>, <<34180, 24017>>,
       <<28584, 32335>>, <<65068, 59104>>, <<41729, 17172>>, <<19976, 4513>>,
       <<63315, 32386>>, <<48442, 62005>>, <<10967, 53947>>, <<60294, 54161>> >>

Md5S ==
    << <<7, 12, 17, 22>>, <<5, 9, 14, 20>>, <<4, 11, 16, 23>>, <<6, 10, 15, 21>> >>

\* index of the message word used by step i
Md5G(i) ==
    CASE i \div 16 = 0 -> i
      [] i \div 16 = 1 -> (5 * i + 1) % 16
      [] i \div 16 = 2 -> (3 * i + 5) % 16
      [] i \div 16 = 3 -> (7 * i) % 16

\* step i of one block; st = <<a, b, c, d>>, m = the 16 words
Md5Step(i, st, m) ==
    << st[4],
       WAdd(st[2],
            WRotl(WAdd(WAdd(st[1], Md5F(i \div 16, st[2], st[3], st[4])),
                       WAdd(Md5K[i + 1], m[Md5G(i) + 1])),
                  Md5S[(i \div 16) + 1][(i % 4) + 1])),
       st[2],
       st[3] >>

Md5States == [1..4 -> (0..(W16 - 1)) \X (0..(W16 - 1))]

Md5Words == [1..16 -> (0..(W16 - 1)) \X (0..(W16 - 1))]

\* the state after steps i .. 63 of one block
Md5Steps[i \in 0..64, st \in Md5States, m \in Md5Words] ==
    IF i = 64 THEN st ELSE Md5Steps[i + 1, Md5Step(i, st, m), m]

\* the padded message: 0x80, zeros to 56 mod 64, the bit length in 8 bytes
Md5Pad(bytes) ==
    bytes \o <<128>> \o [i \in 1..((55 - Len(bytes)) % 64) |-> 0]
    \o [k \in 1..8 |->
          IF k <= 4 THEN ((8 * Len(bytes)) \div (256 ^ (k - 1))) % 256 ELSE 0]

\* the 16 little-endian words of block number blk (from 0)
Md5Block(p, blk) ==
    [j \in 1..16 |->
        << p[64 * blk + 4 * j - 1] + 256 * p[64 * blk + 4 * j],
           p[64 * blk + 4 * j - 3] + 256 * p[64 * blk + 4 * j - 2] >>]

\* the state after the blocks from number blk on
Md5Blocks[p \in Seq(0..255), blk \in Nat, st \in Md5States] ==
    IF 64 * blk >= Len(p) THEN st
    ELSE Md5Blocks[p, blk + 1,
                   [w \in 1..4 |-> WAdd(st[w], Md5Steps[0, st, Md5Block(p, blk)][w])]]

Md5Init ==
    << <<26437, 8961>>, <<61389, 43913>>, <<39098, 56574>>, <<4146, 21622>> >>

HexDigits ==
    <<"0", "1", "2", "3", "4", "5", "6", "7", "8", "9", "a", "b", "c", "d", "e", "f">>

HexByte(b) == <<HexDigits[(b \div 16) + 1], HexDigits[(b % 16) + 1]>>

HexWord(w) ==
    HexByte(w[2] % 256) \o HexByte(w[2] \div 256)
    \o HexByte(w[1] % 256) \o HexByte(w[1] \div 256)

HexState(st) ==
    HexWord(st[1]) \o HexWord(st[2]) \o HexWord(st[3]) \o HexWord(st[4])

\* hashlib.md5(bytes).hexdigest()
Md5Hex(bytes) == HexState(Md5Blocks[Md5Pad(bytes), 0, Md5Init])

(***************************************************************************)
(* str methods and ordered dicts                                           *)
(***************************************************************************)
IsSpace(c) == c = " "

RECURSIVE LStrip(_)
LStrip(s) == IF s # <<>> /\ IsSpace(Head(s)) THEN LStrip(Tail(s)) ELSE s

RECURSIVE RStrip(_)
RStrip(s) ==
    IF s # <<>> /\ IsSpace(s[Len(s)]) THEN RStrip(SubSeq(s, 1, Len(s) - 1)) ELSE s

\* s.strip()
Strip(s) == RStrip(LStrip(s))

\* s.rstrip(c) for a one-character c
RECURSIVE RStripChar(_, _)
RStripChar(s, c) ==
    IF s # <<>> /\ s[Len(s)] = c THEN RStripChar(SubSeq(s, 1, Len(s) - 1), c) ELSE s

\* s.split(sep): the pieces between the occurrences of sep, empty ones kept;
\* cur is the piece being read
RECURSIVE SplitOn(_, _, _)
SplitOn(s, sep, cur) ==
    IF s = <<>> THEN <<cur>>
    ELSE IF Head(s) = sep THEN <<cur>> \o SplitOn(Tail(s), sep, <<>>)
    ELSE SplitOn(Tail(s), sep, Append(cur, Head(s)))

\* s.split(): the maximal runs without whitespace
RECURSIVE SplitWs(_, _)
SplitWs(s, cur) ==
    IF s = <<>> THEN (IF cur = <<>> THEN <<>> ELSE <<cur>>)
    ELSE IF IsSpace(Head(s))
         THEN (IF cur = <<>> THEN <<>> ELSE <<cur>>) \o SplitWs(Tail(s), <<>>)
         ELSE SplitWs(Tail(s), Append(cur, Head(s)))

Split(s) == SplitWs(s, <<>>)

\* c in s
Contains(s, c) == \E i \in 1..Len(s) : s[i] = c

DictKeys(d) == {d[i][1] : i \in 1..Len(d)}

DictHas(d, k) == \E i \in 1..Len(d) : d[i][1] = k

\* d[k], for a key that is present
DictGet(d, k) == d[CHOOSE i \in 1..Len(d) : d[i][1] = k][2]

\* d[k] = v: the value is replaced in place, a new key goes last
DictSet(d, k, v) ==
    IF DictHas(d, k)
    THEN [i \in 1..Len(d) |-> IF d[i][1] = k THEN <<k, v>> ELSE d[i]]
    ELSE Append(d, <<k, v>>)

(***************************************************************************)
(* app/core/scraper.py                                                     *)
(*                                                                         *)
(* A parsed document is the list of its tables.  A table is                *)
(*   [thead |-> None | Some(None) | Some(Some(header text)),               *)
(*    tbody |-> None | Some(rows)]                                         *)
(* (no thead / a thead without th / the text of the first th), a row is    *)
(* the list of its td cells, a cell the list of its nodes and a node       *)
(*   [tag |-> "" for text, else the element name,                          *)
(*    style |-> None | Some(str), text |-> str].                           *)
(***************************************************************************)
MONTHS ==
    << <<"January">>, <<"February">>, <<"March">>, <<"April">>, <<"May">>,
       <<"June">>, <<"July">>, <<"August">>, <<"September">>, <<"October">>,
       <<"November">>, <<"December">> >>

FESTIVAL_COLORS ==
    << << <<"#a60000">>, <<"Hindu", " ", "Festivals">> >>,
       << <<"#4A3475">>, <<"Government", " ", "Holidays">> >>,
       << <<"#556A21">>, <<"Sikh", " ", "Festivals">> >>,
       << <<"#d42426">>, <<"Christian", " ", "Holidays">> >>,
       << <<"#008000">>, <<"Islamic", " ", "Holidays">> >> >>

\* self.MONTHS.get(month) if month else None
TargetMonthName(month) ==
    IF month # None /\ month[1] # 0 /\ month[1] \in 1..Len(MONTHS)
    THEN Some(MONTHS[month[1]])
    ELSE None

\* element.text: the text of all nodes, in order
RECURSIVE NodesText(_)
NodesText(nodes) ==
    IF nodes = <<>> THEN <<>> ELSE Head(nodes).text \o NodesText(Tail(nodes))

\* the month name of a table: the first token of its header, None when the
\* table has no thead, no th or an empty header
MonthName(table) ==
    IF table.thead = None THEN None
    ELSE IF table.thead[1] = None THEN None
    ELSE LET header_text == Strip(table.thead[1][1])
         IN  IF header_text # <<>> THEN Some(Split(header_text)[1]) ELSE None

\* the record of one row in get_festivals, None when the row gives none
FestivalOfRow(cells) ==
    IF Len(cells) >= 2
    THEN LET date_cell == Strip(NodesText(cells[1]))
             name_cell == Strip(NodesText(cells[2]))
             date_parts == Split(date_cell)
         IN  IF date_cell = <<>> \/ name_cell = <<>> THEN None
             ELSE IF Len(date_parts) >= 2
                  THEN Some([date |-> date_parts[1], day |-> date_parts[2],
                             name |-> name_cell])
                  ELSE None
    ELSE None

\* a row loop that gives up at the first row without a record
RECURSIVE MonthFestivals_abort(_)
MonthFestivals_abort(rows) ==
    IF rows = <<>> THEN <<>>
    ELSE IF FestivalOfRow(Head(rows)) = None THEN <<>>
    ELSE FestivalOfRow(Head(rows)) \o MonthFestivals_abort(Tail(rows))

\* the row loop of get_festivals
RECURSIVE MonthFestivals(_)
MonthFestivals(rows) ==
    IF rows = <<>> THEN <<>>
    ELSE FestivalOfRow(Head(rows)) \o MonthFestivals(Tail(rows))

\* the table loop of get_festivals from table i on; visited lists the
\* indexes of the tables the loop has looked at
RECURSIVE FestivalsLoop(_, _, _, _, _)
FestivalsLoop(tables, i, target_month_name, festivals, visited) ==
    IF i > Len(tables) THEN [result |-> festivals, visited |-> visited]
    ELSE
      LET table == tables[i]
          month_name == MonthName(table)
          seen == Append(visited, i)
          continue == FestivalsLoop(tables, i + 1, target_month_name, festivals, seen)
      IN  IF month_name = None THEN continue
          ELSE IF target_month_name # None /\ month_name # target_month_name
               THEN continue
          ELSE IF table.tbody = None THEN continue
          ELSE
            LET month_festivals == MonthFestivals(table.tbody[1])
                updated == IF month_festivals # <<>>
                           THEN DictSet(festivals, month_name[1], month_festivals)
                           ELSE festivals
            IN  IF target_month_name # None /\ month_name = target_month_name
                THEN [result |-> updated, visited |-> seen]
                ELSE FestivalsLoop(tables, i + 1, target_month_name, updated, seen)

\* IndianFestivalsScraper.get_festivals on a fetched document
get_festivals(tables, month) ==
    FestivalsLoop(tables, 1, TargetMonthName(month), <<>>, <<>>)

\* the records one styled tag list adds, in order: <<religion, record>> pairs
RECURSIVE TagFestivals(_, _)
TagFestivals(styled_tags, date_info) ==
    IF styled_tags = <<>> THEN <<>>
    ELSE
      LET tag == Head(styled_tags)
          style == IF tag.style = None THEN <<>> ELSE tag.style[1]
          rest == TagFestivals(Tail(styled_tags), date_info)
      IN  IF style = <<>> \/ ~Contains(style, ":") THEN rest
          ELSE
            LET color_parts == SplitOn(style, ":", <<>>)
                color == RStripChar(Strip(color_parts[2]), ";")
            IN  IF DictHas(FESTIVAL_COLORS, color)
                THEN << << DictGet(FESTIVAL_COLORS, color),
                           date_info @@ [name |-> Strip(tag.text)] >> >> \o rest
                ELSE rest

\* cells[1].find_all(['b', 'a'])
StyledTags(cell) == SelectSeq(cell, LAMBDA n : n.tag \in {"b", "a"})

\* the <<religion, record>> pairs of one row in get_religious_festivals
ReligiousOfRow(cells, target_month_name, month_name) ==
    IF Len(cells) < 2 THEN <<>>
    ELSE LET date_cell == Strip(NodesText(cells[1]))
             date_parts == Split(date_cell)
         IN  IF date_cell = <<>> THEN <<>>
             ELSE IF Len(date_parts) < 2 THEN <<>>
             ELSE LET base == [date |-> date_parts[1], day |-> date_parts[2]]
                      date_info == IF target_month_name = None
                                   THEN base @@ [month |-> month_name]
                                   ELSE base
                  IN  TagFestivals(StyledTags(cells[2]), date_info)

\* religious_festivals[religion].append(festival) for each pair, in order
RECURSIVE AppendAll(_, _)
AppendAll(religious_festivals, pairs) ==
    IF pairs = <<>> THEN religious_festivals
    ELSE AppendAll(
           DictSet(religious_festivals, Head(pairs)[1],
                   Append(DictGet(religious_festivals, Head(pairs)[1]), Head(pairs)[2])),
           Tail(pairs))

\* the row loop of get_religious_festivals
RECURSIVE ReligiousRows(_, _, _, _)
ReligiousRows(rows, target_month_name, month_name, religious_festivals) ==
    IF rows = <<>> THEN religious_festivals
    ELSE ReligiousRows(Tail(rows), target_month_name, month_name,
           AppendAll(religious_festivals,
                     ReligiousOfRow(Head(rows), target_month_name, month_name)))

\* the table loop of get_religious_festivals from table i on
RECURSIVE ReligiousLoop(_, _, _, _, _)
ReligiousLoop(tables, i, target_month_name, religious_festivals, visited) ==
    IF i > Len(tables) THEN [result |-> religious_festivals, visited |-> visited]
    ELSE
      LET table == tables[i]
          month_name == MonthName(table)
          seen == Append(visited, i)
          continue == ReligiousLoop(tables, i + 1, target_month_name,
                                    religious_festivals, seen)
      IN  IF month_name = None THEN continue
          ELSE IF target_month_name # None /\ month_name # target_month_name
               THEN continue
          ELSE IF table.tbody = None THEN continue
          ELSE
            LET updated == ReligiousRows(table.tbody[1], target_month_name,
                                         month_name[1], religious_festivals)
            IN  IF target_month_name # None /\ month_name = target_month_name
                THEN [result |-> updated, visited |-> seen]
                ELSE ReligiousLoop(tables, i + 1, target_month_name, updated, seen)

\* the five categories, each with an empty list
SeededCategories == [i \in 1..Len(FESTIVAL_COLORS) |-> <<FESTIVAL_COLORS[i][2], <<>>>>]

\* a classifier that drops the categories without a record
get_religious_festivals_pruned(tables, month) ==
    LET r == ReligiousLoop(tables, 1, TargetMonthName(month), SeededCategories, <<>>)
    IN  [result |-> SelectSeq(r.result, LAMBDA pair : pair[2] # <<>>),
         visited |-> r.visited]

\* IndianFestivalsScraper.get_religious_festivals on a fetched document
get_religious_festivals(tables, month) ==
    ReligiousLoop(tables, 1, TargetMonthName(month), SeededCategories, <<>>)


(***************************************************************************)
(* app/core/cache.py.  The cache is a function from the keys present to    *)
(* <<value, expiry>>; t is the value of time.time() at the call.           *)
(***************************************************************************)
\* settings.CACHE_TTL, also the default_ttl the CacheManager is built with
CACHE_TTL == 3600

\* CacheManager._generate_key(**kwargs)
generate_key(kwargs) == Md5Hex(Encode(JsonDumps(kwargs)))

\* the cache without the entry of key
Without(c, key) == [k \in (DOMAIN c) \ {key} |-> c[k]]

\* get with the expiry test off by one
get_late(c, t, key) ==
    IF key \in DOMAIN c
    THEN IF t <= c[key][2]
         THEN [value |-> Some(c[key][1]), cache |-> c]
         ELSE [value |-> None, cache |-> Without(c, key)]
    ELSE [value |-> None, cache |-> c]

\* get that leaves an expired entry in the cache
get_keep(c, t, key) ==
    IF key \in DOMAIN c /\ t < c[key][2]
    THEN [value |-> Some(c[key][1]), cache |-> c]
    ELSE [value |-> None, cache |-> c]

\* CacheManager.get, after the key is computed: the value returned (None
\* when absent) and the cache afterwards
get(c, t, key) ==
    IF key \in DOMAIN c
    THEN IF t < c[key][2]
         THEN [value |-> Some(c[key][1]), cache |-> c]
         ELSE [value |-> None, cache |-> Without(c, key)]
    ELSE [value |-> None, cache |-> c]

\* ttl or self.default_ttl
EffectiveTtl(ttl, default_ttl) ==
    IF ttl # None /\ ttl[1] # 0 THEN ttl[1] ELSE default_ttl

\* CacheManager.set, after the key is computed: the cache afterwards
set(c, t, key, value, ttl, default_ttl) ==
    [k \in (DOMAIN c) \cup {key} |->
        IF k = key THEN <<value, t + EffectiveTtl(ttl, default_ttl)>> ELSE c[k]]

\* CacheManager.clear
clear(c) == <<>>

\* the keys collected with a strict comparison
ExpiredKeys_strict(c, current_time) == {k \in DOMAIN c : current_time > c[k][2]}

\* the keys cleanup_expired collects
ExpiredKeys(c, current_time) == {k \in DOMAIN c : current_time >= c[k][2]}

\* a sweep that drops the entries that are still valid as well
cleanup_all(c, current_time) == [count |-> Cardinality(DOMAIN c), cache |-> <<>>]

\* CacheManager.cleanup_expired: the count returned and the cache afterwards
cleanup_expired(c, current_time) ==
    [count |-> Cardinality(ExpiredKeys(c, current_time)),
     cache |-> [k \in (DOMAIN c) \ ExpiredKeys(c, current_time) |-> c[k]]]

(***************************************************************************)
(* app/services/festival_service.py                                        *)
(***************************************************************************)
\* the str value of the type argument of a request type
TypeStr(type) ==
    IF type = "festivals" THEN <<"f", "e", "s", "t", "i", "v", "a", "l", "s">>
    ELSE <<"r", "e", "l", "i", "g", "i", "o", "u", "s">>

\* keyword arguments that leave the type out
Kwargs_untyped(type, year, month) ==
    << << <<"y", "e", "a", "r">>, JInt(year) >>,
       << <<"m", "o", "n", "t", "h">>, IF month = None THEN JNull ELSE JInt(month[1]) >> >>

\* the keyword arguments type=..., year=..., month=... as the service
\* passes them to cache.get and cache.set
Kwargs(type, year, month) ==
    << << <<"t", "y", "p", "e">>, JStr(TypeStr(type)) >>,
       << <<"y", "e", "a", "r">>, JInt(year) >>,
       << <<"m", "o", "n", "t", "h">>, IF month = None THEN JNull ELSE JInt(month[1]) >> >>

\* a truthiness test in the place of the None test
IsTruthy(cached) == cached # None /\ cached[1] # <<>>

\* cached is not None
IsNotNone(cached) == cached # None

\* the scraper method the service calls for a request type
Scrape(type, tables, month) ==
    IF type = "festivals" THEN get_festivals(tables, month).result
    ELSE get_religious_festivals(tables, month).result

\* the end of a service call that missed: the result is cached with
\* ttl=CACHE_TTL and returned
Stored(c, t, key, festivals) ==
    [cache |-> set(c, t, key, festivals, Some(CACHE_TTL), CACHE_TTL),
     value |-> Some(festivals), raised |-> None, fetches |-> 1]

\* a service call that caches an empty result when the fetch fails
service_get_failcached(c, t, key, type, month, fetched, delay) ==
    LET cached == get(c, t, key)
    IN  IF IsNotNone(cached.value)
        THEN [cache |-> cached.cache, value |-> cached.value, raised |-> None,
              fetches |-> 0]
        ELSE IF ~fetched.ok
             THEN [cache |-> set(cached.cache, t + delay, key, <<>>, Some(CACHE_TTL),
                                 CACHE_TTL),
                   value |-> None, raised |-> Some(fetched.error), fetches |-> 1]
             ELSE Stored(cached.cache, t + delay, key,
                         Scrape(type, fetched.tables, month))

\* FestivalService.get_festivals / get_religious_festivals on cache c.
\* key is the cache key of the request, t the time of the lookup, fetched
\* what the network request of a new scraper yields ([ok |-> TRUE, tables]
\* or [ok |-> FALSE, error]) and delay the time the fetch takes.  Gives the
\* cache afterwards, the value returned or the exception raised and the
\* number of network requests made.
service_get(c, t, key, type, month, fetched, delay) ==
    LET cached == get(c, t, key)
    IN  IF IsNotNone(cached.value)
        THEN [cache |-> cached.cache, value |-> cached.value, raised |-> None,
              fetches |-> 0]
        ELSE IF ~fetched.ok
             THEN [cache |-> cached.cache, value |-> None,
                   raised |-> Some(fetched.error), fetches |-> 1]
             ELSE Stored(cached.cache, t + delay, key,
                         Scrape(type, fetched.tables, month))

(***************************************************************************)
(* Inputs: requests, upstream documents, fetch outcomes                    *)
(***************************************************************************)
Months == {None, Some(1)}

\* the requests the service is called with: one request and the three that
\* differ from it in the type, in the year or in the month only
Requests ==
    { [type |-> "festivals", year |-> 2024, month |-> None],
      [type |-> "religious", year |-> 2024, month |-> None],
      [type |-> "festivals", year |-> 2025, month |-> None],
      [type |-> "festivals", year |-> 2024, month |-> Some(1)] }

\* the requests whose keys are compared: those above and further ones that
\* differ from them in the month (1, 2, 12), in the year and in the type
KeyRequests ==
    Requests \cup
    { [type |-> "festivals", year |-> 2024, month |-> Some(2)],
      [type |-> "festivals", year |-> 2024, month |-> Some(12)],
      [type |-> "religious", year |-> 2024, month |-> Some(1)],
      [type |-> "religious", year |-> 2025, month |-> None] }

\* the keyword arguments of a request
KwargsOf(req) == Kwargs(req.type, req.year, req.month)

Text(s) == [tag |-> "", style |-> None, text |-> s]

Styled(tag, style, s) == [tag |-> tag, style |-> Some(style), text |-> s]

Unstyled(tag, s) == [tag |-> tag, style |-> None, text |-> s]

\* rows as the calendar page has them, and malformed ones
RowNewYear ==
    << <<Text(<<"1", " ", "Wednesday">>)>>,
       <<Styled("b", <<"color", ":", " ", "#a60000", ";">>, <<"New", " ", "Year">>)>> >>

RowEid ==
    << <<Text(<<" ", "2", " ", " ", "Thursday", " ">>)>>,
       <<Styled("a", <<"color", ":", "#008000">>, <<"Eid">>),
         Text(<<",", " ">>),
         Styled("b", <<"color", ":", "#4A3475", ";">>, <<"Bank", " ", "Holiday">>)>> >>

RowPlain ==
    << <<Text(<<"3", " ", "Friday">>)>>,
       <<Unstyled("b", <<"Fair">>), Styled("span", <<"color", ":", "#a60000">>, <<"x">>),
         Styled("a", <<"font-weight", " ", "bold">>, <<"y">>),
         Styled("b", <<"color", ":", " ", "#123456">>, <<"z">>)>> >>

RowOneCell == << <<Text(<<"4", " ", "Saturday">>)>> >>

RowNoDate == << <<Text(<<" ">>)>>, <<Text(<<"Nameless", " ", "day">>)>> >>

RowOneToken == << <<Text(<<"5">>)>>, <<Unstyled("b", <<"Dateless">>)>> >>

RowNoName ==
    << <<Text(<<"6", " ", "Monday">>)>>,
       <<Styled("b", <<"color", ":", "#d42426">>, <<>>)>> >>

\* table bodies: none, no rows, well-formed and malformed rows
Bodies ==
    { None, Some(<<>>), Some(<<RowNewYear>>), Some(<<RowOneToken, RowEid>>),
      Some(<<RowPlain, RowOneCell, RowNoDate, RowNoName>>) }

\* table headers: no thead, no th, an empty th, month names
Heads ==
    { None, Some(None), Some(Some(<<" ">>)),
      Some(Some(<<"January", " ", "2025">>)), Some(Some(<<" ", "February">>)) }

Tables == {[thead |-> h, tbody |-> b] : h \in Heads, b \in Bodies}

Docs == UNION {[1..n -> Tables] : n \in 0..MaxTables}

\* the documents the upstream serves in the service runs: one without
\* tables and one with a January table
ServiceDocs ==
    { <<>>,
      <<[thead |-> Some(Some(<<"January", " ", "2025">>)), tbody |-> Some(<<RowNewYear>>)]>> }

\* requests.RequestException subclasses raised by requests.get and
\* raise_for_status, and a failure of the parser
FetchErrors == {"HTTPError", "ParserError"}

\* what the network request of one scraper yields
Fetched ==
    {[ok |-> TRUE, tables |-> d] : d \in ServiceDocs}
    \cup {[ok |-> FALSE, error |-> e] : e \in FetchErrors}

\* how long a fetch takes and how far the clock moves between calls
FetchDelays == {0, 1}

TickSteps == {CACHE_TTL - 1, CACHE_TTL}

\* values and ttl arguments of direct CacheManager.set calls
SetValues == {<<>>, << << <<"January">>, <<>> >> >>}

SetTtls == {None, Some(0), Some(1)}


(***************************************************************************)
(* State                                                                   *)
(***************************************************************************)
VARIABLES
    now,      \* time.time(), in seconds
    cache,    \* CacheManager._cache of the shared cache manager
    keys,     \* _generate_key tabulated over the requests in use
    ret,      \* the last call: what was called and what it returned
    plain,    \* the same calls made on a cache that is never swept
    owner,    \* for each key, the request of the set that wrote it
    memo,     \* for each request, how the last service call for it ended
    ticks,    \* clock advances so far
    calls,    \* cache and service calls so far
    doc,      \* IndianFestivalsScraper._tables of the scraper under test
    out,      \* the last call on that scraper and its result
    resp,     \* the HTTP response to the last request
    inst,     \* one IndianFestivalsScraper instance: _soup, _tables
    threads,  \* the threads running cache or service calls concurrently
    singletons \* dependencies._cache_manager and _festival_service

\* the variables of the HTTP shell, of a scraper instance and of threads
shell == <<resp, inst, threads, singletons>>

vars == <<now, cache, keys, ret, plain, owner, memo, ticks, calls, doc, out,
          resp, inst, threads, singletons>>

NoCall == [op |-> "none"]

\* no request answered, no scraper instance used, no thread started, no
\* singleton built
InitShell ==
    /\ resp = NoCall
    /\ inst = NoCall
    /\ threads = <<>>
    /\ singletons = NoCall

Init ==
    /\ now = 0
    /\ cache = <<>>
    /\ keys = [req \in KeyRequests |-> generate_key(KwargsOf(req))]
    /\ ret = NoCall
    /\ plain = [cache |-> <<>>, ret |-> NoCall]
    /\ owner = <<>>
    /\ memo = [req \in Requests |-> None]
    /\ ticks = 0
    /\ calls = 0
    /\ doc = <<>>
    /\ out = NoCall
    /\ InitShell

(***************************************************************************)
(* Operations of the service and of the cache                              *)
(***************************************************************************)
\* the clock moves on between two calls (no call follows the last one)
Tick(d) ==
    /\ ticks < MaxTicks
    /\ calls < MaxCalls
    /\ ticks' = ticks + 1
    /\ now' = now + d
    /\ UNCHANGED <<cache, keys, ret, plain, owner, memo, calls, doc, out>>
    /\ UNCHANGED shell

\* the exception a network request ends with, None when it succeeds
Fault(fetched) == IF fetched.ok THEN None ELSE Some(fetched.error)

\* what a service call leaves in ret: the request, the value returned or
\* the exception raised, the number of network requests made and the
\* exception the network request ended with
ServiceRet(kw, r, fetched) ==
    [op |-> "service", req |-> kw,
     value |-> r.value, raised |-> r.raised, fetches |-> r.fetches,
     fault |-> IF r.fetches = 1 THEN Fault(fetched) ELSE None]

\* one call of FestivalService.get_festivals (type festivals) or
\* get_religious_festivals (type religious): its effect on the cache, the
\* clock and the record of the call
ServiceCore(kw, fetched, delay) ==
    /\ calls < MaxCalls
    /\ calls' = calls + 1
    /\ \E r \in {service_get(cache, now, keys[kw], kw.type, kw.month, fetched, delay)},
          p \in {service_get(plain.cache, now, keys[kw], kw.type, kw.month, fetched, delay)} :
          /\ cache' = r.cache
          /\ ret' = ServiceRet(kw, r, fetched)
          /\ plain' = [cache |-> p.cache, ret |-> ServiceRet(kw, p, fetched)]
          /\ owner' = IF r.fetches = 1 /\ r.raised = None
                      THEN [k \in (DOMAIN owner) \cup {keys[kw]} |->
                              IF k = keys[kw] THEN kw ELSE owner[k]]
                      ELSE owner
          /\ memo' = [memo EXCEPT ![kw] =
                        IF r.raised # None THEN Some([ok |-> FALSE])
                        ELSE IF r.fetches = 1
                             THEN Some([ok |-> TRUE, t0 |-> now + delay,
                                        value |-> r.value[1]])
                             ELSE @]
          /\ now' = IF r.fetches = 1 THEN now + delay ELSE now
    /\ UNCHANGED <<keys, ticks, doc, out>>

\* the call made directly, outside any HTTP request, with the arguments
\* of the method called
ServiceCall(type, year, month, fetched, delay) ==
    /\ ServiceCore([type |-> type, year |-> year, month |-> month], fetched, delay)
    /\ UNCHANGED shell

GetFestivals(year, month, fetched, delay) ==
    ServiceCall("festivals", year, month, fetched, delay)

GetReligiousFestivals(year, month, fetched, delay) ==
    ServiceCall("religious", year, month, fetched, delay)

\* the (year, month) pairs requested of each method
FestivalsArgs == {<<r.year, r.month>> : r \in {q \in Requests : q.type = "festivals"}}

ReligiousArgs == {<<r.year, r.month>> : r \in {q \in Requests : q.type = "religious"}}

\* CacheManager.cleanup_expired, on a schedule or on demand, at any point
CleanupExpired ==
    LET r == cleanup_expired(cache, now)
    IN  /\ cache' = r.cache
        /\ ret' = [op |-> "cleanup_expired", count |-> r.count]
        /\ UNCHANGED <<now, keys, plain, owner, memo, ticks, calls, doc, out>>
        /\ UNCHANGED shell

\* CacheManager.clear
Clear ==
    /\ calls < MaxCalls
    /\ calls' = calls + 1
    /\ cache' = clear(cache)
    /\ ret' = [op |-> "clear"]
    /\ plain' = [cache |-> clear(plain.cache), ret |-> [op |-> "clear"]]
    /\ memo' = [req \in Requests |-> None]
    /\ UNCHANGED <<now, keys, owner, ticks, doc, out>>
    /\ UNCHANGED shell

\* a direct CacheManager.get(**kwargs) with the keyword arguments of kw
CacheGet(kw) ==
    LET r == get(cache, now, keys[kw])
        p == get(plain.cache, now, keys[kw])
    IN  /\ calls < MaxCalls
        /\ calls' = calls + 1
        /\ cache' = r.cache
        /\ ret' = [op |-> "get", req |-> kw, value |-> r.value]
        /\ plain' = [cache |-> p.cache,
                     ret |-> [op |-> "get", req |-> kw, value |-> p.value]]
        /\ UNCHANGED <<now, keys, owner, memo, ticks, doc, out>>
        /\ UNCHANGED shell

\* a direct CacheManager.set(value, ttl, **kwargs); ttl None when not supplied
CacheSet(kw, value, ttl) ==
    /\ calls < MaxCalls
    /\ calls' = calls + 1
    /\ cache' = set(cache, now, keys[kw], value, ttl, CACHE_TTL)
    /\ ret' = [op |-> "set", req |-> kw, value |-> value, ttl |-> ttl]
    /\ plain' = [cache |-> set(plain.cache, now, keys[kw], value, ttl, CACHE_TTL),
                 ret |-> [op |-> "set", req |-> kw, value |-> value,
                          ttl |-> ttl]]
    /\ owner' = [k \in (DOMAIN owner) \cup {keys[kw]} |->
                    IF k = keys[kw] THEN kw ELSE owner[k]]
    /\ memo' = [memo EXCEPT ![kw] = None]
    /\ UNCHANGED <<now, keys, ticks, doc, out>>
    /\ UNCHANGED shell

\* the service as the application runs it
Next ==
    \/ \E d \in TickSteps : Tick(d)
    \/ \E a \in FestivalsArgs, fetched \in Fetched, delay \in FetchDelays :
          GetFestivals(a[1], a[2], fetched, delay)
    \/ \E a \in ReligiousArgs, fetched \in Fetched, delay \in FetchDelays :
          GetReligiousFestivals(a[1], a[2], fetched, delay)
    \/ CleanupExpired
    \/ Clear

Spec == Init /\ [][Next]_vars

\* the cache manager called directly
NextCache ==
    \/ \E d \in TickSteps : Tick(d)
    \/ \E kw \in Requests : CacheGet(kw)
    \/ \E kw \in Requests, value \in SetValues, ttl \in SetTtls : CacheSet(kw, value, ttl)
    \/ CleanupExpired
    \/ Clear

SpecCache == Init /\ [][NextCache]_vars

(***************************************************************************)
(* The scraper on its own: any document, any month filter                  *)
(***************************************************************************)
InitScraper ==
    /\ now = 0
    /\ cache = <<>>
    /\ keys = <<>>
    /\ ret = NoCall
    /\ plain = [cache |-> <<>>, ret |-> NoCall]
    /\ owner = <<>>
    /\ memo = <<>>
    /\ ticks = 0
    /\ calls = 0
    /\ doc \in Docs
    /\ out = NoCall
    /\ InitShell

\* scraper.get_festivals(month) on the fetched document
ScraperGetFestivals(month) ==
    /\ out' = [op |-> "get_festivals", month |-> month] @@ get_festivals(doc, month)
    /\ UNCHANGED <<now, cache, keys, ret, plain, owner, memo, ticks, calls, doc>>
    /\ UNCHANGED shell

\* scraper.get_religious_festivals(month) on the fetched document
ScraperGetReligiousFestivals(month) ==
    /\ out' = [op |-> "get_religious_festivals", month |-> month]
              @@ get_religious_festivals(doc, month)
    /\ UNCHANGED <<now, cache, keys, ret, plain, owner, memo, ticks, calls, doc>>
    /\ UNCHANGED shell

NextScraper ==
    \/ \E month \in Months : ScraperGetFestivals(month)
    \/ \E month \in Months : ScraperGetReligiousFestivals(month)

SpecScraper == InitScraper /\ [][NextScraper]_vars


(***************************************************************************)
(* The service in front of an upstream that serves any document            *)
(***************************************************************************)
\* the religious requests made of the service: unfiltered and January
SiteRequests == {req \in KeyRequests : req.type = "religious" /\ req.year = 2024}

InitSite ==
    /\ now = 0
    /\ cache = <<>>
    /\ keys = [req \in KeyRequests |-> generate_key(KwargsOf(req))]
    /\ ret = NoCall
    /\ plain = [cache |-> <<>>, ret |-> NoCall]
    /\ owner = <<>>
    /\ memo = [req \in KeyRequests |-> None]
    /\ ticks = 0
    /\ calls = 0
    /\ doc \in Docs
    /\ out = NoCall
    /\ InitShell

\* FestivalService.get_religious_festivals while the upstream serves doc
SiteGetReligiousFestivals(kw) ==
    \E fetched \in {[ok |-> TRUE, tables |-> doc]} :
        ServiceCall(kw.type, kw.year, kw.month, fetched, 0)

NextSite == \E kw \in SiteRequests : SiteGetReligiousFestivals(kw)

SpecSite == InitSite /\ [][NextSite]_vars

(***************************************************************************)
(* The HTTP shell: app/main.py, app/api/routes.py, app/api/dependencies.py *)
(* and app/middleware/error_handler.py.  Fewer requests are made than the  *)
(* rate limit allows, so the limiter lets every request through.           *)
(***************************************************************************)
\* settings.MIN_YEAR, MAX_YEAR, MIN_MONTH, MAX_MONTH
MIN_YEAR == 1900

MAX_YEAR == 2100

MIN_MONTH == 1

MAX_MONTH == 12

\* the paths the application registers: the root endpoint and the four
\* routes of the router under the prefix /api/v1 (the documentation paths
\* of FastAPI are left out)
AppRoutes ==
    { "/",
      "/api/v1/festivals/{year}",
      "/api/v1/festivals/{year}/month/{month}",
      "/api/v1/festivals/{year}/religious",
      "/api/v1/festivals/{year}/religious/month/{month}" }

\* the routes whose month is a path parameter
MonthPathRoutes ==
    { "/api/v1/festivals/{year}/month/{month}",
      "/api/v1/festivals/{year}/religious/month/{month}" }

\* the service method a route calls
RouteType(path) ==
    IF path \in { "/api/v1/festivals/{year}", "/api/v1/festivals/{year}/month/{month}" }
    THEN "festivals"
    ELSE "religious"

\* year_path: Path(..., ge=MIN_YEAR, le=MAX_YEAR)
year_path(year) == year >= MIN_YEAR /\ year <= MAX_YEAR

\* month_path: Path(..., ge=MIN_MONTH, le=MAX_MONTH)
month_path(month) ==
    IF month = None THEN FALSE ELSE month[1] >= MIN_MONTH /\ month[1] <= MAX_MONTH

\* month_query: Query(None, ge=MIN_MONTH, le=MAX_MONTH)
month_query(month) ==
    IF month = None THEN TRUE ELSE month[1] >= MIN_MONTH /\ month[1] <= MAX_MONTH

\* the dependencies of a route accept the parameters
ParamsValid(path, year, month) ==
    /\ year_path(year)
    /\ IF path \in MonthPathRoutes THEN month_path(month) ELSE month_query(month)

\* the handler registered for RequestValidationError: the number of
\* parameters it declares and the response it builds
validation_exception_handler ==
    [params |-> <<"exc">>, response |-> [status |-> 422, detail |-> "Validation error"]]

\* the handler registered for Exception
general_exception_handler ==
    [params |-> <<"exc">>, response |-> [status |-> 500, detail |-> "unexpected error"]]

\* the framework calls an exception handler as handler(request, exc): a
\* handler that declares another number of parameters raises TypeError
CallHandler(handler) ==
    IF Len(handler.params) = 2
    THEN [raised |-> None, response |-> handler.response]
    ELSE [raised |-> Some("TypeError"), response |-> None]

\* the response to an exception no handler turned into a response: the
\* server's plain 500
ServerError == [status |-> 500, detail |-> "Internal Server Error"]

\* the response to a request whose parameters fail validation
ValidationResponse ==
    LET first == CallHandler(validation_exception_handler)
    IN  IF first.raised = None THEN first.response
        ELSE LET second == CallHandler(general_exception_handler)
             IN  IF second.raised = None THEN second.response ELSE ServerError

\* FestivalItem(**festival): month is None when the record has none
FestivalItem(festival) ==
    [date |-> festival.date, day |-> festival.day, name |-> festival.name,
     month |-> IF "month" \in DOMAIN festival THEN Some(festival.month) ELSE None]

\* convert_to_festival_items
convert_to_festival_items(festivals_dict) ==
    [i \in 1..Len(festivals_dict) |->
        << festivals_dict[i][1],
           [j \in 1..Len(festivals_dict[i][2]) |-> FestivalItem(festivals_dict[i][2][j])] >>]

\* the try block of a route: what it returns or raises, given what the
\* service call returned or raised
RouteTry(type, r) ==
    IF r.raised # None THEN [raised |-> Some([class |-> r.raised[1]])]
    ELSE LET festivals == r.value[1]
             found == IF type = "festivals" THEN festivals # <<>>
                      ELSE \E i \in 1..Len(festivals) : festivals[i][2] # <<>>
         IN  IF ~found
             THEN [raised |-> Some([class |-> "HTTPException", status_code |-> 404])]
             ELSE [raised |-> None, body |-> convert_to_festival_items(festivals)]

\* a route whose except clauses are tried in the other order
RouteResponse_swapped(type, r) ==
    LET tried == RouteTry(type, r)
    IN  IF tried.raised = None THEN [status |-> 200, body |-> tried.body]
        ELSE [status |-> 500]

\* a route: the try block, except HTTPException: raise, except Exception:
\* raise HTTPException(500); FastAPI answers an HTTPException with its
\* status code
RouteResponse(type, r) ==
    LET tried == RouteTry(type, r)
    IN  IF tried.raised = None THEN [status |-> 200, body |-> tried.body]
        ELSE IF tried.raised[1].class = "HTTPException"
             THEN [status |-> tried.raised[1].status_code]
             ELSE [status |-> 500]

\* the years and months of the requests: just outside and inside the ranges
ApiYears == {MIN_YEAR - 1, 2024, MAX_YEAR + 1}

ApiMonths == {None, Some(MIN_MONTH - 1), Some(1), Some(MAX_MONTH + 1)}

\* paths requested that have no parameters
PlainPaths == {"/", "/health"}

InitApi ==
    /\ now = 0
    /\ cache = <<>>
    /\ keys = [req \in KeyRequests |-> generate_key(KwargsOf(req))]
    /\ ret = NoCall
    /\ plain = [cache |-> <<>>, ret |-> NoCall]
    /\ owner = <<>>
    /\ memo = [req \in KeyRequests |-> None]
    /\ ticks = 0
    /\ calls = 0
    /\ doc = <<>>
    /\ out = NoCall
    /\ InitShell

\* GET of a path without parameters: the root endpoint answers, a path no
\* route matches is answered 404 by the router
HttpGetPlain(path) ==
    /\ resp' = [op |-> "GET", path |-> path, invoked |-> FALSE] @@
               (IF path \in AppRoutes
                THEN [status |-> 200, body |-> {"message", "version", "docs", "health", "api_prefix"}]
                ELSE [status |-> 404, body |-> {"detail"}])
    /\ UNCHANGED <<now, cache, keys, ret, plain, owner, memo, ticks, calls, doc, out>>
    /\ UNCHANGED <<inst, threads, singletons>>

\* GET of one of the four festival routes whose parameters fail validation
HttpGetInvalid(path, year, month) ==
    /\ ~ParamsValid(path, year, month)
    /\ resp' = [op |-> "GET", path |-> path, year |-> year, month |-> month,
                invoked |-> FALSE] @@ ValidationResponse
    /\ UNCHANGED <<now, cache, keys, ret, plain, owner, memo, ticks, calls, doc, out>>
    /\ UNCHANGED <<inst, threads, singletons>>

\* GET of one of the four festival routes with valid parameters
HttpGetRoute(path, year, month, fetched) ==
    /\ ParamsValid(path, year, month)
    /\ ServiceCore([type |-> RouteType(path), year |-> year, month |-> month], fetched, 0)
    /\ resp' = [op |-> "GET", path |-> path, year |-> year, month |-> month,
                invoked |-> TRUE] @@ RouteResponse(RouteType(path), ret')
    /\ UNCHANGED <<inst, threads, singletons>>

\* the months a route can be asked with: a month path parameter is never absent
RouteMonths(path) == IF path \in MonthPathRoutes THEN ApiMonths \ {None} ELSE ApiMonths

NextApi ==
    \/ \E path \in PlainPaths : HttpGetPlain(path)
    \/ \E path \in AppRoutes \ {"/"}, year \in ApiYears :
          \E month \in RouteMonths(path) : HttpGetInvalid(path, year, month)
    \/ \E path \in AppRoutes \ {"/"}, year \in ApiYears, fetched \in Fetched :
          \E month \in RouteMonths(path) : HttpGetRoute(path, year, month, fetched)

SpecApi == InitApi /\ [][NextApi]_vars

(***************************************************************************)
(* Threads on one CacheManager.  CacheManager has no lock, so the threads  *)
(* of a caller interleave between the statements of get, set and           *)
(* cleanup_expired and of the service method that calls them.  A thread    *)
(* runs one operation; pc names the source line it executes next.          *)
(***************************************************************************)
Threads == {1, 2}

\* the requests of the threads
ThreadRequests ==
    { [type |-> "festivals", year |-> 2024, month |-> None],
      [type |-> "festivals", year |-> 2024, month |-> Some(1)] }

\* the operations a thread can run
ThreadOps == {"get", "set", "cleanup_expired", "service"}

\* the value of the entries the cache holds at the start
OldValue == << << <<"December">>, <<>> >> >>

\* an entry at the start: expired already, or valid for two more seconds
InitialExpiries == {0, 2}

\* what the threads leave alone
ThreadFrame ==
    UNCHANGED <<keys, ret, plain, owner, memo, ticks, calls, doc, out, resp, inst, singletons>>

\* a thread that runs nothing yet
Idle ==
    [op |-> "none", pc |-> "idle", caller |-> "none", kw |-> None,
     value |-> None, ttl |-> None, expiry |-> 0, read_at |-> 0,
     current_time |-> 0, size |-> 0, visited |-> {}, expired_keys |-> <<>>,
     removed |-> 0, missed |-> FALSE, wrote |-> 0, ret |-> None, raised |-> None]

\* the first line of an operation
FirstLine(op) ==
    CASE op = "get" -> "get28"
      [] op = "set" -> "set46"
      [] op = "cleanup_expired" -> "cleanup57"
      [] op = "service" -> "get28"

\* a thread calls an operation; the service method starts with cache.get
\* and writes with ttl=CACHE_TTL
ThreadStart(t, op, kw, value) ==
    /\ threads[t].pc = "idle"
    /\ threads' = [threads EXCEPT ![t] =
          [Idle EXCEPT !.op = op, !.pc = FirstLine(op),
                       !.caller = IF op = "service" THEN "service" ELSE "none",
                       !.kw = IF op = "cleanup_expired" THEN None ELSE Some(kw),
                       !.value = IF op = "set" THEN Some(value) ELSE None,
                       !.ttl = IF op = "service" THEN Some(CACHE_TTL) ELSE None]]
    /\ UNCHANGED <<now, cache>>
    /\ ThreadFrame

\* the key of the request of a thread
ThreadKey(t) == keys[threads[t].kw[1]]

\* a thread ends its operation with an exception
Raise(th, error) == [th EXCEPT !.pc = "done", !.raised = Some(error)]

\* cache.get returns v: to the service method, which returns a cached
\* value and goes on to the scraper otherwise, or to the caller
GetReturn(th, v) ==
    IF th.caller = "service" /\ ~IsNotNone(v)
    THEN [th EXCEPT !.pc = "fetch33"]
    ELSE [th EXCEPT !.pc = "done", !.ret = v]

\* line 28: if key in self._cache
Get28(t) ==
    /\ threads[t].pc = "get28"
    /\ threads' = [threads EXCEPT ![t] =
          IF ThreadKey(t) \in DOMAIN cache
          THEN [@ EXCEPT !.pc = "get29"]
          ELSE GetReturn([@ EXCEPT !.missed = TRUE], None)]
    /\ UNCHANGED <<now, cache>>
    /\ ThreadFrame

\* line 29: value, expiry = self._cache[key]
Get29(t) ==
    /\ threads[t].pc = "get29"
    /\ threads' = [threads EXCEPT ![t] =
          IF ThreadKey(t) \in DOMAIN cache
          THEN [@ EXCEPT !.pc = "get32", !.value = Some(cache[ThreadKey(t)][1]),
                         !.expiry = cache[ThreadKey(t)][2]]
          ELSE Raise(@, "KeyError")]
    /\ UNCHANGED <<now, cache>>
    /\ ThreadFrame

\* line 32: if time.time() < expiry: return value
Get32(t) ==
    /\ threads[t].pc = "get32"
    /\ threads' = [threads EXCEPT ![t] =
          IF now < @.expiry
          THEN GetReturn([@ EXCEPT !.read_at = now], @.value)
          ELSE [@ EXCEPT !.pc = "get37", !.missed = TRUE]]
    /\ UNCHANGED <<now, cache>>
    /\ ThreadFrame

\* line 37: del self._cache[key], then return None
Get37(t) ==
    /\ threads[t].pc = "get37"
    /\ IF ThreadKey(t) \in DOMAIN cache
       THEN /\ cache' = Without(cache, ThreadKey(t))
            /\ threads' = [threads EXCEPT ![t] = GetReturn(@, None)]
       ELSE /\ cache' = cache
            /\ threads' = [threads EXCEPT ![t] = Raise(@, "KeyError")]
    /\ UNCHANGED now
    /\ ThreadFrame

\* IndianFestivalsScraper(...).get_festivals(month): the fetch fails, or the
\* records of the document are extracted
Fetch33(t, fetched) ==
    /\ threads[t].pc = "fetch33"
    /\ threads' = [threads EXCEPT ![t] =
          IF ~fetched.ok THEN Raise(@, fetched.error)
          ELSE [@ EXCEPT !.pc = "set46",
                         !.value = Some(Scrape(threads[t].kw[1].type, fetched.tables,
                                              threads[t].kw[1].month))]]
    /\ UNCHANGED <<now, cache>>
    /\ ThreadFrame

\* line 46: expiry = time.time() + (ttl or self.default_ttl)
Set46(t) ==
    /\ threads[t].pc = "set46"
    /\ threads' = [threads EXCEPT ![t] =
          [@ EXCEPT !.pc = "set47", !.expiry = now + EffectiveTtl(threads[t].ttl, CACHE_TTL)]]
    /\ UNCHANGED <<now, cache>>
    /\ ThreadFrame

\* the number of writes made to the cache so far
Writes == CHOOSE n \in 0..Cardinality(Threads) :
             /\ \A t \in Threads : threads[t].wrote <= n
             /\ n = 0 \/ \E t \in Threads : threads[t].wrote = n

\* line 47: self._cache[key] = (value, expiry); set returns None, the
\* service method returns the records
Set47(t) ==
    /\ threads[t].pc = "set47"
    /\ cache' = [k \in (DOMAIN cache) \cup {ThreadKey(t)} |->
                    IF k = ThreadKey(t) THEN <<threads[t].value[1], threads[t].expiry>>
                    ELSE cache[k]]
    /\ threads' = [threads EXCEPT ![t] =
          [@ EXCEPT !.pc = "done", !.wrote = Writes + 1,
                    !.ret = IF threads[t].caller = "service" THEN threads[t].value
                             ELSE None]]
    /\ UNCHANGED now
    /\ ThreadFrame

\* line 57: current_time = time.time(); the iteration of line 59 starts
Cleanup57(t) ==
    /\ threads[t].pc = "cleanup57"
    /\ threads' = [threads EXCEPT ![t] =
          [@ EXCEPT !.pc = "cleanup59", !.current_time = now,
                    !.size = Cardinality(DOMAIN cache)]]
    /\ UNCHANGED <<now, cache>>
    /\ ThreadFrame

\* lines 58-61: one step of the iteration over self._cache.items().  The
\* iterator raises RuntimeError when the dict changed size since the
\* iteration started; otherwise it yields an item not yet visited, or ends
Cleanup59(t) ==
    /\ threads[t].pc = "cleanup59"
    /\ IF Cardinality(DOMAIN cache) # threads[t].size
       THEN threads' = [threads EXCEPT ![t] = Raise(@, "RuntimeError")]
       ELSE IF (DOMAIN cache) \ threads[t].visited = {}
            THEN threads' = [threads EXCEPT ![t] = [@ EXCEPT !.pc = "cleanup63"]]
            ELSE \E key \in (DOMAIN cache) \ threads[t].visited :
                    threads' = [threads EXCEPT ![t] =
                       [@ EXCEPT !.visited = @ \cup {key},
                                 !.expired_keys =
                                     IF threads[t].current_time >= cache[key][2]
                                     THEN Append(@, key) ELSE @]]
    /\ UNCHANGED <<now, cache>>
    /\ ThreadFrame

\* lines 63-69: del self._cache[key] for the next collected key, or
\* return len(expired_keys) after the last
Cleanup63(t) ==
    /\ threads[t].pc = "cleanup63"
    /\ LET th == threads[t]
       IN  IF th.removed = Len(th.expired_keys)
           THEN /\ cache' = cache
                /\ threads' = [threads EXCEPT ![t] =
                       [@ EXCEPT !.pc = "done", !.ret = Some(Len(th.expired_keys))]]
           ELSE LET key == th.expired_keys[th.removed + 1]
                IN  IF key \in DOMAIN cache
                    THEN /\ cache' = Without(cache, key)
                         /\ threads' = [threads EXCEPT ![t] = [@ EXCEPT !.removed = @ + 1]]
                    ELSE /\ cache' = cache
                         /\ threads' = [threads EXCEPT ![t] = Raise(@, "KeyError")]
    /\ UNCHANGED now
    /\ ThreadFrame

\* the clock moves by a second
ThreadTick ==
    /\ ticks < MaxTicks
    /\ ticks' = ticks + 1
    /\ now' = now + 1
    /\ UNCHANGED <<cache, threads>>
    /\ UNCHANGED <<keys, ret, plain, owner, memo, calls, doc, out, resp, inst, singletons>>

\* a cache manager that holds entries, expired or valid, of some of the
\* requests, and threads that run nothing yet
InitThreads ==
    /\ now = 0
    /\ keys = [req \in KeyRequests |-> generate_key(KwargsOf(req))]
    /\ \E held \in SUBSET ThreadRequests :
          \E expiries \in [held -> InitialExpiries] :
             cache = [k \in {keys[req] : req \in held} |->
                         <<OldValue, expiries[CHOOSE req \in held : keys[req] = k]>>]
    /\ ret = NoCall
    /\ plain = [cache |-> <<>>, ret |-> NoCall]
    /\ owner = <<>>
    /\ memo = [req \in KeyRequests |-> None]
    /\ ticks = 0
    /\ calls = 0
    /\ doc = <<>>
    /\ out = NoCall
    /\ resp = NoCall
    /\ inst = NoCall
    /\ threads = [t \in Threads |-> Idle]
    /\ singletons = NoCall

NextThreads ==
    \/ \E t \in Threads, op \in ThreadOps, kw \in ThreadRequests, value \in SetValues :
          ThreadStart(t, op, kw, value)
    \/ \E t \in Threads : Get28(t)
    \/ \E t \in Threads : Get29(t)
    \/ \E t \in Threads : Get32(t)
    \/ \E t \in Threads : Get37(t)
    \/ \E t \in Threads, fetched \in Fetched : Fetch33(t, fetched)
    \/ \E t \in Threads : Set46(t)
    \/ \E t \in Threads : Set47(t)
    \/ \E t \in Threads : Cleanup57(t)
    \/ \E t \in Threads : Cleanup59(t)
    \/ \E t \in Threads : Cleanup63(t)
    \/ ThreadTick

SpecThreads == InitThreads /\ [][NextThreads]_vars

(***************************************************************************)
(* The classifier on January tables whose name cells carry styles of one   *)
(* and of several declarations                                             *)
(***************************************************************************)
MaxRows == 2

\* a row whose elements declare the colour together with a font weight
RowDiwali ==
    << <<Text(<<"12", " ", "Sunday">>)>>,
       <<Styled("b", <<"font-weight", ":", "bold", ";", " ", "color", ":", "#a60000">>,
                <<"Diwali">>),
         Styled("a", <<"color", ":", "#556A21", ";", "font-weight", ":", "bold">>,
                <<"Bandi", " ", "Chhor">>)>> >>

ClassifierRows == {RowNewYear, RowEid, RowPlain, RowNoName, RowOneToken, RowDiwali}

\* documents of one January table with up to MaxRows rows
ClassifierDocs ==
    { <<[thead |-> Some(Some(<<"January", " ", "2025">>)), tbody |-> Some(rows)]>> :
        rows \in UNION {[1..n -> ClassifierRows] : n \in 0..MaxRows} }

\* no filter, the month of the table, another month
ClassifierMonths == {None, Some(1), Some(2)}

InitClassifier ==
    /\ now = 0
    /\ cache = <<>>
    /\ keys = <<>>
    /\ ret = NoCall
    /\ plain = [cache |-> <<>>, ret |-> NoCall]
    /\ owner = <<>>
    /\ memo = <<>>
    /\ ticks = 0
    /\ calls = 0
    /\ doc \in ClassifierDocs
    /\ out = NoCall
    /\ InitShell

NextClassifier == \E month \in ClassifierMonths : ScraperGetReligiousFestivals(month)

SpecClassifier == InitClassifier /\ [][NextClassifier]_vars

(***************************************************************************)
(* One IndianFestivalsScraper instance called several times.  inst holds   *)
(* _soup and _tables, the network requests made through the instance and   *)
(* the outcome of the last call.                                           *)
(***************************************************************************)
\* _fetch_data without the test of self._soup
fetch_data_always(self, fetched) ==
    IF fetched.ok
    THEN [soup |-> Some(fetched.tables), tables |-> Some(fetched.tables),
          requested |-> 1, raised |-> None]
    ELSE [soup |-> self.soup, tables |-> self.tables,
          requested |-> 1, raised |-> Some(fetched.error)]

\* IndianFestivalsScraper._fetch_data: _soup and _tables afterwards, the
\* number of network requests made and the exception raised.  fetched is
\* what a request made now would give.
fetch_data(self, fetched) ==
    IF self.soup # None
    THEN [soup |-> self.soup, tables |-> self.tables, requested |-> 0, raised |-> None]
    ELSE IF fetched.ok
         THEN [soup |-> Some(fetched.tables), tables |-> Some(fetched.tables),
               requested |-> 1, raised |-> None]
         ELSE [soup |-> None, tables |-> None,
               requested |-> 1, raised |-> Some(fetched.error)]

\* IndianFestivalsScraper(year): nothing fetched, no request made
InitInstance ==
    /\ now = 0
    /\ cache = <<>>
    /\ keys = <<>>
    /\ ret = NoCall
    /\ plain = [cache |-> <<>>, ret |-> NoCall]
    /\ owner = <<>>
    /\ memo = <<>>
    /\ ticks = 0
    /\ calls = 0
    /\ doc = <<>>
    /\ out = NoCall
    /\ resp = NoCall
    /\ inst = [op |-> "__init__", month |-> None, soup |-> None, tables |-> None,
               requests |-> 0, successes |-> 0, requested |-> 0,
               raised |-> None, result |-> None]
    /\ threads = <<>>
    /\ singletons = NoCall

\* what the upstream can answer to a request of the instance: documents
\* with no, one and two tables, or a failure
InstanceFetched ==
    Fetched \cup
    { [ok |-> TRUE, tables |-> d] :
        d \in { <<[thead |-> Some(Some(<<"January", " ", "2025">>)), tbody |-> Some(<<RowEid>>)]>>,
                <<[thead |-> Some(Some(<<" ", "February">>)), tbody |-> Some(<<RowOneToken, RowEid>>)]>>,
                <<[thead |-> Some(Some(<<"January", " ", "2025">>)), tbody |-> Some(<<RowNewYear>>)],
                  [thead |-> Some(Some(<<" ", "February">>)), tbody |-> Some(<<RowOneToken, RowEid>>)]>> } }

\* the instance after a call of a method: _fetch_data first, then the loop
\* over self._tables
InstanceCall(self, op, month, fetched) ==
    LET f == fetch_data(self, fetched)
    IN  [op |-> op, month |-> month, soup |-> f.soup, tables |-> f.tables,
         requests |-> self.requests + f.requested,
         successes |-> self.successes +
                       (IF f.requested = 1 /\ f.raised = None THEN 1 ELSE 0),
         requested |-> f.requested,
         raised |-> f.raised,
         result |-> IF f.raised # None THEN None
                    ELSE Some(Scrape(op, f.tables[1], month))]

\* scraper.get_festivals(month)
InstanceGetFestivals(month, fetched) ==
    /\ calls < MaxCalls
    /\ calls' = calls + 1
    /\ inst' = InstanceCall(inst, "festivals", month, fetched)
    /\ UNCHANGED <<now, cache, keys, ret, plain, owner, memo, ticks, doc, out>>
    /\ UNCHANGED <<resp, threads, singletons>>

\* scraper.get_religious_festivals(month)
InstanceGetReligiousFestivals(month, fetched) ==
    /\ calls < MaxCalls
    /\ calls' = calls + 1
    /\ inst' = InstanceCall(inst, "religious", month, fetched)
    /\ UNCHANGED <<now, cache, keys, ret, plain, owner, memo, ticks, doc, out>>
    /\ UNCHANGED <<resp, threads, singletons>>

\* the months the methods are called with: no filter, January, February
InstanceMonths == {None, Some(1), Some(2)}

NextInstance ==
    \/ \E month \in InstanceMonths, fetched \in InstanceFetched :
          InstanceGetFestivals(month, fetched)
    \/ \E month \in InstanceMonths, fetched \in InstanceFetched :
          InstanceGetReligiousFestivals(month, fetched)

SpecInstance == InitInstance /\ [][NextInstance]_vars

(***************************************************************************)
(* app/api/dependencies.py: the module globals _cache_manager and          *)
(* _festival_service and the threads of the threadpool in which FastAPI    *)
(* runs the dependency functions, which are plain def functions.  A thread *)
(* is at the source line pc names; singletons.created counts the           *)
(* CacheManager objects built, singletons.handed collects the services     *)
(* returned to requests.                                                   *)
(***************************************************************************)
\* a thread of the pool that runs no dependency
Waiting == [pc |-> "idle", fn |-> "none", cache |-> None, ret |-> None]

\* the two functions a thread can be given
SingletonFunctions == {"get_festival_service", "get_cache_manager"}

\* the module after import: both globals None
InitSingletons ==
    /\ now = 0
    /\ cache = <<>>
    /\ keys = <<>>
    /\ ret = NoCall
    /\ plain = [cache |-> <<>>, ret |-> NoCall]
    /\ owner = <<>>
    /\ memo = <<>>
    /\ ticks = 0
    /\ calls = 0
    /\ doc = <<>>
    /\ out = NoCall
    /\ resp = NoCall
    /\ inst = NoCall
    /\ threads = <<>>
    /\ singletons = [cache_manager |-> None, festival_service |-> None,
                     created |-> 0, built |-> 0, handed |-> {},
                     th |-> [t \in Threads |-> Waiting]]

\* what the steps of the dependencies leave alone
SingletonFrame ==
    UNCHANGED <<now, cache, keys, ret, plain, owner, memo, ticks, doc, out, resp, inst, threads>>

\* a request arrives and a thread of the pool starts one of the functions;
\* one call more than MaxCalls, for a request that follows two first calls
DependencyCall(t, fn) ==
    /\ calls < MaxCalls + 1
    /\ calls' = calls + 1
    /\ singletons.th[t].pc \in {"idle", "done"}
    /\ singletons' = [singletons EXCEPT !.th[t] =
          [pc |-> IF fn = "get_festival_service" THEN "service27" ELSE "manager19",
           fn |-> fn, cache |-> None, ret |-> None]]
    /\ SingletonFrame

\* line 27: if _festival_service is None
Service27(t) ==
    /\ singletons.th[t].pc = "service27"
    /\ singletons' = [singletons EXCEPT !.th[t].pc =
          IF singletons.festival_service = None THEN "service28" ELSE "service30"]
    /\ UNCHANGED calls
    /\ SingletonFrame

\* line 28: cache = get_cache_manager(), the call
Service28(t) ==
    /\ singletons.th[t].pc = "service28"
    /\ singletons' = [singletons EXCEPT !.th[t].pc = "manager19"]
    /\ UNCHANGED calls
    /\ SingletonFrame

\* line 19: if _cache_manager is None
Manager19(t) ==
    /\ singletons.th[t].pc = "manager19"
    /\ singletons' = [singletons EXCEPT !.th[t].pc =
          IF singletons.cache_manager = None THEN "manager20" ELSE "manager21"]
    /\ UNCHANGED calls
    /\ SingletonFrame

\* line 20: _cache_manager = CacheManager(default_ttl=settings.CACHE_TTL)
Manager20(t) ==
    /\ singletons.th[t].pc = "manager20"
    /\ singletons' = [singletons EXCEPT !.created = @ + 1,
                                        !.cache_manager = Some(singletons.created + 1),
                                        !.th[t].pc = "manager21"]
    /\ UNCHANGED calls
    /\ SingletonFrame

\* line 21: return _cache_manager, to the request or to line 28
Manager21(t) ==
    /\ singletons.th[t].pc = "manager21"
    /\ singletons' =
          IF singletons.th[t].fn = "get_festival_service"
          THEN [singletons EXCEPT !.th[t].pc = "service29",
                                  !.th[t].cache = singletons.cache_manager]
          ELSE [singletons EXCEPT !.th[t].pc = "done",
                                  !.th[t].ret = singletons.cache_manager]
    /\ UNCHANGED calls
    /\ SingletonFrame

\* line 29: _festival_service = FestivalService(cache_manager=cache)
Service29(t) ==
    /\ singletons.th[t].pc = "service29"
    /\ singletons' = [singletons EXCEPT
          !.built = @ + 1,
          !.festival_service = Some([id |-> singletons.built + 1,
                                     cache |-> singletons.th[t].cache[1]]),
          !.th[t].pc = "service30"]
    /\ UNCHANGED calls
    /\ SingletonFrame

\* line 30: return _festival_service
Service30(t) ==
    /\ singletons.th[t].pc = "service30"
    /\ singletons' = [singletons EXCEPT
          !.th[t].pc = "done",
          !.th[t].ret = singletons.festival_service,
          !.handed = @ \cup {singletons.festival_service[1]}]
    /\ UNCHANGED calls
    /\ SingletonFrame

NextSingletons ==
    \/ \E t \in Threads, fn \in SingletonFunctions : DependencyCall(t, fn)
    \/ \E t \in Threads : Service27(t)
    \/ \E t \in Threads : Service28(t)
    \/ \E t \in Threads : Manager19(t)
    \/ \E t \in Threads : Manager20(t)
    \/ \E t \in Threads : Manager21(t)
    \/ \E t \in Threads : Service29(t)
    \/ \E t \in Threads : Service30(t)

SpecSingletons == InitSingletons /\ [][NextSingletons]_vars

(***************************************************************************)
(* Properties                                                              *)
(***************************************************************************)
\* the step is a service call for request kw
ServiceStep(kw) == calls' = calls + 1 /\ ret'.op = "service" /\ ret'.req = kw

\* request kw was last answered from a fetch that succeeded
Succeeded(kw) == memo[kw] # None /\ memo[kw][1].ok

\* the entries of all keys but key are the same before and after the step
OthersUnchanged(key) ==
    /\ (DOMAIN cache) \ {key} = (DOMAIN cache') \ {key}
    /\ \A k \in (DOMAIN cache) \ {key} : cache'[k] = cache[k]

\* a result without any record
EmptyResult(type, value) ==
    IF type = "festivals" THEN value = <<>>
    ELSE \A i \in 1..Len(value) : value[i][2] = <<>>

\* C1: a service call made less than CACHE_TTL after the call that fetched
\* and stored the result of the same request (no clear in between) makes no
\* network request and returns that same result; made CACHE_TTL or more
\* after it, it makes exactly one network request.
C1_CacheIdempotence ==
    [][\A kw \in Requests :
         (ServiceStep(kw) /\ Succeeded(kw)) =>
            IF now < memo[kw][1].t0 + CACHE_TTL
            THEN /\ ret'.fetches = 0
                 /\ ret'.raised = None
                 /\ ret'.value = Some(memo[kw][1].value)
            ELSE ret'.fetches = 1]_vars

\* a call served from the cache in the last second before the entry expires
C1_Witness ==
    /\ ret.op = "service"
    /\ ret.fetches = 0
    /\ Succeeded(ret.req)
    /\ now = memo[ret.req][1].t0 + CACHE_TTL - 1

\* C2: a service call that raises leaves no entry for its key, leaves the
\* entries of all other keys as they were and raises the very exception the
\* fetch ended with; the next call for the same request fetches again.
C2_FailureNotCached ==
    [][\A kw \in Requests :
         /\ (ServiceStep(kw) /\ ret'.raised # None) =>
               /\ keys[kw] \notin DOMAIN cache'
               /\ OthersUnchanged(keys[kw])
               /\ ret'.raised = ret'.fault
               /\ ret'.value = None
         /\ (ServiceStep(kw) /\ memo[kw] # None /\ ~memo[kw][1].ok) =>
               ret'.fetches = 1]_vars

\* a call that raised while the cache held an entry of another request
C2_Witness ==
    /\ ret.op = "service"
    /\ ret.raised # None
    /\ DOMAIN cache # {}

\* C3: an empty result is cached like any other: a call for the same
\* request inside the TTL window returns the empty result from the cache
\* and makes no network request.
C3_EmptyResultCached ==
    [][\A kw \in Requests :
         (/\ ServiceStep(kw)
          /\ Succeeded(kw)
          /\ EmptyResult(kw.type, memo[kw][1].value)
          /\ now < memo[kw][1].t0 + CACHE_TTL) =>
            /\ ret'.fetches = 0
            /\ ret'.value = Some(memo[kw][1].value)
            /\ EmptyResult(kw.type, ret'.value[1])]_vars

\* an empty mapping returned by get_festivals without a network request
C3_Witness ==
    /\ ret.op = "service"
    /\ ret.req.type = "festivals"
    /\ ret.fetches = 0
    /\ ret.value = Some(<<>>)

\* the step is a direct CacheManager.get
GetStep == calls' = calls + 1 /\ ret'.op = "get"

\* C4: get returns the stored value exactly when an entry is present and
\* now < expiry, and then changes nothing; otherwise it returns None, the
\* entry of the key (if any) is gone and all other entries are unchanged.
C4_GetContract ==
    [][GetStep =>
         LET key == keys[ret'.req]
         IN  IF key \in DOMAIN cache /\ now < cache[key][2]
             THEN ret'.value = Some(cache[key][1]) /\ cache' = cache
             ELSE /\ ret'.value = None
                  /\ key \notin DOMAIN cache'
                  /\ OthersUnchanged(key)]_vars

\* a get that found nothing for a key that was set earlier
C4_Witness ==
    /\ ret.op = "get"
    /\ ret.value = None
    /\ keys[ret.req] \in DOMAIN owner
    /\ now > 0

\* the step is a direct CacheManager.set
SetStep == calls' = calls + 1 /\ ret'.op = "set"

\* C5: set called with a ttl stores (value, now + ttl) for every ttl >= 0,
\* ttl = 0 included, and leaves all other entries unchanged.
C5_SetUsesSuppliedTtl ==
    [][(SetStep /\ ret'.ttl # None) =>
         LET key == keys[ret'.req]
         IN  /\ key \in DOMAIN cache'
             /\ cache'[key] = <<ret'.value, now + ret'.ttl[1]>>
             /\ OthersUnchanged(key)]_vars

\* the step is a sweep (it counts neither as a call nor as a tick)
SweepStep == ret'.op = "cleanup_expired" /\ calls' = calls /\ ticks' = ticks

\* C6: cleanup_expired removes exactly the entries with expiry <= now,
\* returns how many it removed and leaves the other entries unchanged.
C6_SweepContract ==
    [][SweepStep =>
         /\ DOMAIN cache' = {k \in DOMAIN cache : cache[k][2] > now}
         /\ \A k \in DOMAIN cache' : cache'[k] = cache[k]
         /\ ret'.count = Cardinality({k \in DOMAIN cache : cache[k][2] <= now})]_vars

\* a sweep that removed an entry and kept another
C6_Witness ==
    /\ ret.op = "cleanup_expired"
    /\ ret.count > 0
    /\ DOMAIN cache # {}

\* C7: with and without sweeps, every call returns the same and fetches
\* as often, and the entries that are still valid are the same.
C7_SweepTransparent ==
    /\ ret.op \in {"service", "get"} => ret = plain.ret
    /\ DOMAIN cache \subseteq DOMAIN plain.cache
    /\ \A k \in DOMAIN plain.cache :
          IF k \in DOMAIN cache THEN cache[k] = plain.cache[k]
          ELSE plain.cache[k][2] <= now

\* a service call made after a sweep removed an entry that the cache
\* without sweeps still holds
C7_Witness ==
    /\ ret.op = "service"
    /\ cache # plain.cache

\* C8: different requests have different keys, and a call is only ever
\* answered with the entry written for exactly its own request.
C8_KeysSeparateRequests ==
    /\ \A r1, r2 \in KeyRequests : keys[r1] = keys[r2] => r1 = r2
    /\ (ret.op = "service" /\ ret.raised = None) =>
          /\ keys[ret.req] \in DOMAIN owner
          /\ owner[keys[ret.req]] = ret.req
    /\ \A k \in DOMAIN cache : k \in DOMAIN owner /\ keys[owner[k]] = k

\* a cache hit while the cache holds the entries of two requests
C8_Witness ==
    /\ ret.op = "service"
    /\ Cardinality(DOMAIN cache) = 2

\* the index of the first table whose month name is name, 0 if none
FirstTable(tables, name) ==
    IF \E i \in 1..Len(tables) : MonthName(tables[i]) = Some(name)
    THEN CHOOSE i \in 1..Len(tables) :
            /\ MonthName(tables[i]) = Some(name)
            /\ \A j \in 1..(i - 1) : MonthName(tables[j]) # Some(name)
    ELSE 0

\* C9: when the result filtered to a month and the unfiltered result both
\* have the month, its record lists are the same.
C9_FilterAgreesWithUnfiltered ==
    (out.op = "get_festivals" /\ out.month # None) =>
        LET name == MONTHS[out.month[1]]
            unfiltered == get_festivals(doc, None).result
        IN  (DictHas(out.result, name) /\ DictHas(unfiltered, name)) =>
                DictGet(out.result, name) = DictGet(unfiltered, name)

\* C10: with a month filter, the first table of the target month is looked
\* at and no table after it is.
C10_EarlyExit ==
    (out.op \in {"get_festivals", "get_religious_festivals"} /\ out.month # None) =>
        LET first == FirstTable(doc, MONTHS[out.month[1]])
        IN  first # 0 =>
              /\ \E v \in 1..Len(out.visited) : out.visited[v] = first
              /\ \A v \in 1..Len(out.visited) : out.visited[v] <= first


\* the five categories, in the order of the colour table
FiveCategories ==
    << <<"Hindu", " ", "Festivals">>, <<"Government", " ", "Holidays">>,
       <<"Sikh", " ", "Festivals">>, <<"Christian", " ", "Holidays">>,
       <<"Islamic", " ", "Holidays">> >>

\* C11: every result get_religious_festivals returns, fresh or from the
\* cache, for any document and month filter, has exactly the five category
\* keys, each with a list (empty when nothing matched).
C11_FiveCategoriesPresent ==
    (ret.op = "service" /\ ret.req.type = "religious" /\ ret.raised = None) =>
        LET value == ret.value[1]
        IN  /\ [i \in 1..Len(value) |-> value[i][1]] = FiveCategories
            /\ \A i \in 1..Len(value) : DOMAIN value[i][2] = 1..Len(value[i][2])

\* a January result without any record served from the cache, for a
\* document that has tables
C11_Witness ==
    /\ ret.op = "service"
    /\ ret.req.type = "religious"
    /\ ret.req.month = Some(1)
    /\ ret.fetches = 0
    /\ ret.value # None
    /\ EmptyResult("religious", ret.value[1])
    /\ doc # <<>>


\* a malformed row: fewer than two cells, an empty date cell, or a date
\* cell with a single token
Malformed(row) ==
    \/ Len(row) < 2
    \/ Strip(NodesText(row[1])) = <<>>
    \/ Len(Split(Strip(NodesText(row[1])))) < 2

\* the document without its malformed rows
CleanDoc(tables) ==
    [i \in 1..Len(tables) |->
        IF tables[i].tbody = None THEN tables[i]
        ELSE [tables[i] EXCEPT
                !.tbody = Some(SelectSeq(tables[i].tbody[1], LAMBDA row : ~Malformed(row)))]]

\* C12: malformed rows are skipped and nothing else: both methods return
\* what they return for the same document without its malformed rows, so
\* every other row, before or after, still gives its records, in order.
C12_MalformedRowsSkipped ==
    /\ out.op = "get_festivals" =>
          /\ out.result = get_festivals(CleanDoc(doc), out.month).result
          /\ out.visited = get_festivals(CleanDoc(doc), out.month).visited
    /\ out.op = "get_religious_festivals" =>
          /\ out.result = get_religious_festivals(CleanDoc(doc), out.month).result
          /\ out.visited = get_religious_festivals(CleanDoc(doc), out.month).visited

\* records extracted from a document that has a malformed row in front of a
\* well-formed one
C12_Witness ==
    /\ out.op = "get_festivals"
    /\ \E i \in 1..Len(doc) :
          /\ doc[i].tbody # None
          /\ Len(doc[i].tbody[1]) >= 2
          /\ Malformed(doc[i].tbody[1][1])
          /\ ~Malformed(doc[i].tbody[1][2])
    /\ out.result # <<>>

\* the response carries the result: the same keys in the same order, and
\* under each key the same records, field by field
Carries(body, value) ==
    /\ Len(body) = Len(value)
    /\ \A i \in 1..Len(value) :
          /\ body[i][1] = value[i][1]
          /\ Len(body[i][2]) = Len(value[i][2])
          /\ \A j \in 1..Len(value[i][2]) :
                \A f \in DOMAIN value[i][2][j] :
                    IF f = "month" THEN body[i][2][j].month = Some(value[i][2][j].month)
                    ELSE body[i][2][j][f] = value[i][2][j][f]

\* C13: each of the four festival routes answers 500 when the service call
\* raised, 404 when it returned a result without any record (an empty
\* mapping, or five empty category lists), and 200 with the result in every
\* other case; the 404 of an empty result is not turned into a 500.
C13_RouteOutcome ==
    (resp.op = "GET" /\ resp.invoked) =>
        /\ ret.op = "service"
        /\ ret.req = [type |-> RouteType(resp.path), year |-> resp.year, month |-> resp.month]
        /\ IF ret.raised # None THEN resp.status = 500
           ELSE IF EmptyResult(ret.req.type, ret.value[1]) THEN resp.status = 404
           ELSE resp.status = 200 /\ Carries(resp.body, ret.value[1])

\* a religious route answered 404 for five empty category lists
C13_Witness ==
    /\ resp.op = "GET"
    /\ resp.invoked
    /\ resp.path = "/api/v1/festivals/{year}/religious/month/{month}"
    /\ ret.raised = None
    /\ Len(ret.value[1]) = 5
    /\ resp.status = 404

\* C14: a request whose year or month is outside the configured ranges is
\* answered 422 and does not reach the service.
C14_OutOfRangeIs422 ==
    (resp.op = "GET" /\ resp.path \in AppRoutes \ {"/"}
        /\ ~ParamsValid(resp.path, resp.year, resp.month)) =>
        /\ resp.status = 422
        /\ ~resp.invoked

\* C17: GET /health is answered 200 with the fields status, timestamp and
\* version.
C17_HealthServed ==
    (resp.op = "GET" /\ resp.path = "/health") =>
        /\ resp.status = 200
        /\ {"status", "timestamp", "version"} \subseteq resp.body

\* C15: under every interleaving of the statements of get, set and
\* cleanup_expired run by threads on one CacheManager, no operation raises,
\* a get that returns a value read it before its expiry, and
\* cleanup_expired returns the number of entries it removed.
C15_CacheThreadSafe ==
    \A t \in Threads :
        LET th == threads[t]
        IN  th.op \in {"get", "set", "cleanup_expired"} =>
               /\ th.raised = None
               /\ (th.op = "get" /\ th.pc = "done" /\ th.ret # None) => th.read_at < th.expiry
               /\ (th.op = "cleanup_expired" /\ th.pc = "done") => th.ret = Some(th.removed)

\* the fetch of the thread failed
FetchFailed(th) == th.raised # None /\ th.raised[1] \in FetchErrors

\* C16: when two threads have run the service method for the same request,
\* both found no valid entry and neither fetch failed, each has returned
\* the records it extracted and the cache holds for the key the records of
\* the thread that wrote last.
C16_BenignRace ==
    \A t \in Threads, u \in Threads :
        (/\ t # u
         /\ threads[t].op = "service" /\ threads[u].op = "service"
         /\ threads[t].pc = "done" /\ threads[u].pc = "done"
         /\ threads[t].kw = threads[u].kw
         /\ threads[t].missed /\ threads[u].missed
         /\ ~FetchFailed(threads[t]) /\ ~FetchFailed(threads[u])
         /\ threads[t].wrote >= threads[u].wrote) =>
            /\ threads[t].raised = None /\ threads[u].raised = None
            /\ threads[t].ret = threads[t].value /\ threads[u].ret = threads[u].value
            /\ ThreadKey(t) \in DOMAIN cache
            /\ cache[ThreadKey(t)][1] = threads[t].value[1]

\* the colour a style declares: the value of its last color declaration,
\* None when it has none
CssColor(style) ==
    LET declarations == SplitOn(style, ";", <<>>)
        colors == SelectSeq(declarations,
                      LAMBDA d : Contains(d, ":") /\ Strip(SplitOn(d, ":", <<>>)[1]) = <<"color">>)
    IN  IF colors = <<>> THEN None
        ELSE Some(Strip(SplitOn(colors[Len(colors)], ":", <<>>)[2]))

\* the styled bold and link elements of the rows with a valid date cell, in
\* document order, each with the date and day of its row and its colour
RECURSIVE ColouredElements(_)
ColouredElements(rows) ==
    IF rows = <<>> THEN <<>>
    ELSE (IF Malformed(Head(rows)) THEN <<>>
          ELSE LET date_parts == Split(Strip(NodesText(Head(rows)[1])))
                   tags == SelectSeq(Head(rows)[2],
                               LAMBDA n : n.tag \in {"b", "a"} /\ n.style # None)
               IN  [k \in 1..Len(tags) |->
                       [date |-> date_parts[1], day |-> date_parts[2],
                        name |-> Strip(tags[k].text),
                        color |-> CssColor(tags[k].style[1])]])
         \o ColouredElements(Tail(rows))

\* C18: the list of a category holds, in document order, one record for
\* each bold or link element of a selected row whose style declares the
\* colour of the category, and nothing else.
C18_StyledElementsClassified ==
    (out.op = "get_religious_festivals") =>
        LET rows == IF out.month \in {None, Some(1)} THEN doc[1].tbody[1] ELSE <<>>
        IN  \A c \in 1..Len(FESTIVAL_COLORS) :
               LET found == SelectSeq(ColouredElements(rows),
                                LAMBDA e : e.color = Some(FESTIVAL_COLORS[c][1]))
               IN  DictGet(out.result, FESTIVAL_COLORS[c][2]) =
                      [k \in 1..Len(found) |->
                          [date |-> found[k].date, day |-> found[k].day,
                           name |-> found[k].name] @@
                          (IF out.month = None THEN [month |-> <<"January">>] ELSE <<>>)]

\* C19: a call on an instance that has fetched makes no network request and
\* computes its result from the document fetched before; a call on an
\* instance that has not fetched makes exactly one request, and when that
\* request fails the call raises and the instance still has not fetched;
\* so at most one request of an instance succeeds.
C19_OneFetchPerInstance ==
    [][(calls' = calls + 1) =>
          /\ inst.soup # None =>
                /\ inst'.requested = 0
                /\ inst'.raised = None
                /\ inst'.soup = inst.soup /\ inst'.tables = inst.tables
                /\ inst'.result = Some(Scrape(inst'.op, inst.tables[1], inst'.month))
          /\ inst.soup = None =>
                /\ inst'.requested = 1
                /\ inst'.raised # None => inst'.soup = None /\ inst'.result = None
                /\ inst'.raised = None => inst'.soup # None
          /\ inst'.requests = inst.requests + inst'.requested
          /\ inst'.successes <= 1]_vars

\* a second call, of the other method, served from the document the first
\* call fetched
C19_Witness ==
    /\ inst.op = "religious"
    /\ inst.requests = 1
    /\ inst.successes = 1
    /\ inst.requested = 0
    /\ inst.tables # None /\ inst.tables[1] # <<>>
    /\ calls = 2

\* C20: under every interleaving of the threads that run
\* get_festival_service and get_cache_manager, at most one CacheManager is
\* built, and the services and cache managers returned to requests all are
\* or use that one.
C20_SingleCache ==
    /\ singletons.created <= 1
    /\ \A s \in singletons.handed : Some(s.cache) = singletons.cache_manager
    /\ \A t \in Threads :
          (singletons.th[t].pc = "done" /\ singletons.th[t].fn = "get_cache_manager") =>
              singletons.th[t].ret = singletons.cache_manager

=============================================================================
